---- MODULE Spec2Model ----
(***************************************************************************)
(* Model of the voltage-series analysis core (analysis.py) and of the      *)
(* request handler that calls it (app.py).                                 *)
(*                                                                         *)
(* Indices are the 0-based positions the Python code uses; a Python        *)
(* sequence s is a TLA+ sequence whose element at code index i is s[i+1]   *)
(* (operator At).                                                          *)
(***************************************************************************)
EXTENDS Integers, Sequences, FiniteSets, TLC

\* ---------------------------------------------------------------- bounds
\* longest value sequence handed to the analysers, beyond the named scenarios
MaxLen == 5
\* longest raw table handed to load_df in SpecLoad
MaxRows == 3
\* longest raw table handed to load_df in SpecLoadLong
MaxLongRows == 7
\* number of run_analysis calls issued in SpecRun
MaxRequests == 2

\* ------------------------------------------------------------- constants
\* rolling(window=5, ...)
WINDOW == 5
\* rolling(..., min_periods=1)
MIN_PERIODS == 1
\* below_20: df["Values"] < 20
THRESHOLD == 20
\* plot_and_save_all, plot 4: df["Values"] < 20
PLOT_THRESHOLD == 20

\* pandas' NaT, the result of a failed timestamp parse
NaT == -1

\* ------------------------------------------------------------------ state
\* load_df
VARIABLES
    raw,                  \* the table read_csv returned: rows of (Timestamp text, Values)
    table,                \* load_df's local df while it is being transformed
    pcL                   \* where load_df stands

loadVars == <<raw, table, pcL>>

\* run_analysis, one call per worker thread of the server
VARIABLES
    pc,                   \* pc[w]: where worker w's call of run_analysis stands
    req,                  \* req[w]: the number of the request w serves (0: none)
    args,                 \* args[w]: csv_path and uploaded_bytes of the call
    err,                  \* err[w]: the exception the call raised ("": none)
    ret,                  \* ret[w]: the tables returned, named by their request (0: none)
    effects,              \* effects[w]: what the call did to the file system, in order
    files,                \* files[name]: the request whose data the artifact holds (0: absent)
    dirExists,            \* whether out_dir exists
    nextReq               \* the number of the next request

runVars == <<pc, req, args, err, ret, effects, files, dirExists, nextReq>>

\* the analysers
VARIABLES
    df,                   \* the Series load_df returned
    pcA,                  \* where the analysis of df stands
    peaks, troughs,       \* find_extrema: the index lists
    peaks_df, troughs_df, \* find_extrema: the (Timestamp, Value) tables
    below_df,             \* below_20's table
    i,                    \* find_downward_acceleration: the loop index
    current_cycle,        \* find_downward_acceleration: the open run
    downward_cycles,      \* find_downward_acceleration: the recorded runs
    acceleration_points,  \* find_downward_acceleration: the records emitted
    below                 \* plot_and_save_all: the subset of plot 4

anaVars == <<df, pcA, peaks, troughs, peaks_df, troughs_df, below_df, i,
             current_cycle, downward_cycles, acceleration_points, below>>

At(s, pos) == s[pos + 1]

Max(a, b) == IF a > b THEN a ELSE b

SetOf(s) == {s[k] : k \in 1..Len(s)}

\* the numbers of S, ascending
RECURSIVE Ascending(_)
Ascending(S) ==
    IF S = {} THEN <<>>
    ELSE LET least == CHOOSE x \in S : \A y \in S : x <= y
         IN <<least>> \o Ascending(S \ {least})

\* ------------------------------------------------------------------ load
\* A raw Timestamp cell is the tuple of the numbers its text holds:
\* <<d, m, y, H, M>> for text of the shape "d/m/y H:M", and a tuple of
\* another length for text of another shape (<<2024, 1, 2>> is "2024-01-02").

IsLeap(year) == year % 4 = 0 /\ (year % 100 # 0 \/ year % 400 = 0)

DaysInMonth(m, year) ==
    IF m = 2 THEN (IF IsLeap(year) THEN 29 ELSE 28)
    ELSE IF m \in {4, 6, 9, 11} THEN 30 ELSE 31

\* %y: two-digit years 00..68 are 2000..2068, 69..99 are 1969..1999
FullYear(y) == IF y <= 68 THEN 2000 + y ELSE 1900 + y

\* The parsed datetime, as a number that orders and identifies datetimes as
\* the datetimes themselves do (the code only sorts and copies them).
DatetimeOrd(year, m, d, H, M) ==
    ((((year * 12 + (m - 1)) * 31 + (d - 1)) * 24 + H) * 60) + M

\* pd.to_datetime(cell, format="%d/%m/%y %H:%M", errors="coerce")
to_datetime(cell) ==
    IF Len(cell) # 5 THEN NaT
    ELSE LET d == cell[1]  m == cell[2]  y == cell[3]  H == cell[4]  M == cell[5] IN
         IF /\ y \in 0..99 /\ m \in 1..12
            /\ d >= 1 /\ d <= DaysInMonth(m, FullYear(y))
            /\ H \in 0..23 /\ M \in 0..59
         THEN DatetimeOrd(FullYear(y), m, d, H, M)
         ELSE NaT

\* df["Timestamp"] = pd.to_datetime(df["Timestamp"], ...): every row kept,
\* its Timestamp replaced by the parsed value
ParseColumn(rows) ==
    [k \in 1..Len(rows) |->
        [Timestamp |-> to_datetime(rows[k].Timestamp), Values |-> rows[k].Values]]

\* the rows of s, in order, whose position is in keep
RECURSIVE FilterSeq(_, _)
FilterSeq(s, keep) ==
    IF s = <<>> THEN <<>>
    ELSE LET n == Len(s)
             front == FilterSeq(SubSeq(s, 1, n - 1), keep)
         IN IF n \in keep THEN Append(front, s[n]) ELSE front

\* df.dropna(subset=["Timestamp"])
dropna(rows) == FilterSeq(rows, {k \in 1..Len(rows) : rows[k].Timestamp # NaT})

RemoveAt(s, k) == SubSeq(s, 1, k - 1) \o SubSeq(s, k + 1, Len(s))

\* the positions whose Timestamp is the smallest of rows
MinPositions(rows) ==
    {k \in 1..Len(rows) : \A j \in 1..Len(rows) : rows[k].Timestamp <= rows[j].Timestamp}

\* sort_values is called without kind=, so it runs the default
\* kind="quicksort", which is not a stable sort: any of the rows holding the
\* smallest key may come out first. (Of several equal rows the first stands
\* for all: reset_index(drop=True) leaves nothing to tell them apart.)
TiePositions(rows) ==
    {k \in MinPositions(rows) :
        \A j \in MinPositions(rows) : j < k => rows[j] # rows[k]}

\* df.sort_values("Timestamp"): every order the sort may produce
RECURSIVE sort_values(_)
sort_values(rows) ==
    IF rows = <<>> THEN {<<>>}
    ELSE UNION { { <<rows[k]>> \o rest : rest \in sort_values(RemoveAt(rows, k)) }
                 : k \in TiePositions(rows) }

\* The trailing sums pandas' rolling mean keeps: the new value is added and
\* the value that left the window is removed; the mean is sum / count, kept
\* here as the pair <<sum, count>>.
RECURSIVE RollingSums(_, _)
RollingSums(v, window) ==
    IF v = <<>> THEN <<>>
    ELSE LET n == Len(v)
             prev == RollingSums(SubSeq(v, 1, n - 1), window)
             last == IF n = 1 THEN <<0, 0>> ELSE prev[n - 1]
             added == <<last[1] + v[n], last[2] + 1>>
             cur == IF n > window
                    THEN <<added[1] - v[n - window], added[2] - 1>>
                    ELSE added
         IN Append(prev, cur)

\* the mean of a window holding fewer than min_periods values is NaN
NaNMean == <<0, 0>>

\* rolling(window=5) without min_periods: NaN until the window is full
rolling_mean_full_window(v) ==
    LET sums == RollingSums(v, WINDOW) IN
    [k \in 1..Len(v) |-> IF sums[k][2] >= WINDOW THEN sums[k] ELSE NaNMean]

\* df["Values"].rolling(window=5, min_periods=1).mean()
rolling_mean(v) ==
    LET sums == RollingSums(v, WINDOW) IN
    [k \in 1..Len(v) |-> IF sums[k][2] >= MIN_PERIODS THEN sums[k] ELSE NaNMean]

ValuesOf(rows) == [k \in 1..Len(rows) |-> rows[k].Values]

\* df["5_day_MA"] = ...: the column attached to the sorted, re-indexed rows
WithMA(rows) ==
    LET ma == rolling_mean(ValuesOf(rows)) IN
    [k \in 1..Len(rows) |->
        [Timestamp |-> rows[k].Timestamp, Values |-> rows[k].Values, MA |-> ma[k]]]

\* -------------------------------------------------------------- analysis
\* scipy.signal.find_peaks(x) with no condition: the scan of
\* _local_maxima_1d. i_ahead walks over the samples equal to x[i].
RECURSIVE PlateauEnd(_, _, _)
PlateauEnd(x, at, i_ahead) ==
    IF i_ahead < Len(x) - 1 /\ At(x, i_ahead) = At(x, at)
    THEN PlateauEnd(x, at, i_ahead + 1)
    ELSE i_ahead

\* the midpoints found from loop position at on
RECURSIVE LocalMaximaFrom(_, _)
LocalMaximaFrom(x, at) ==
    IF ~(at < Len(x) - 1) THEN <<>>
    ELSE IF At(x, at - 1) < At(x, at)
         THEN LET i_ahead == PlateauEnd(x, at, at + 1) IN
              IF At(x, i_ahead) < At(x, at)
              THEN <<(at + (i_ahead - 1)) \div 2>> \o LocalMaximaFrom(x, i_ahead + 1)
              ELSE LocalMaximaFrom(x, at + 1)
         ELSE LocalMaximaFrom(x, at + 1)

\* find_peaks by the three-point rule alone: a sample on a plateau is skipped
find_peaks_strict(x) ==
    Ascending({idx \in 1..Len(x) - 2 :
                  At(x, idx - 1) < At(x, idx) /\ At(x, idx + 1) < At(x, idx)})

\* find_peaks taking a missing neighbour for a lower one
find_peaks_edges(x) ==
    Ascending({idx \in 0..Len(x) - 1 :
                  /\ (idx = 0 \/ At(x, idx - 1) < At(x, idx))
                  /\ (idx = Len(x) - 1 \/ At(x, idx + 1) < At(x, idx))})

find_peaks(x) == LocalMaximaFrom(x, 1)

Negated(x) == [k \in 1..Len(x) |-> 0 - x[k]]

\* df.iloc[idx][["Timestamp", "Values"]].rename(columns={"Values": "Value"})
ExtremaTable(d, idx) ==
    [k \in 1..Len(idx) |->
        [Timestamp |-> At(d, idx[k]).Timestamp, Value |-> At(d, idx[k]).Values]]

\* below_20 with <= for <
Below20Inclusive(d) ==
    LET kept == FilterSeq(d, {k \in 1..Len(d) : d[k].Values <= THRESHOLD}) IN
    [k \in 1..Len(kept) |-> [Timestamp |-> kept[k].Timestamp, Value |-> kept[k].Values]]

\* df[df["Values"] < 20][["Timestamp", "Values"]].rename(...)
Below20Table(d) ==
    LET kept == FilterSeq(d, {k \in 1..Len(d) : d[k].Values < THRESHOLD}) IN
    [k \in 1..Len(kept) |-> [Timestamp |-> kept[k].Timestamp, Value |-> kept[k].Values]]

\* below = df[df["Values"] < 20]
PlotBelow(d) == FilterSeq(d, {k \in 1..Len(d) : d[k].Values < PLOT_THRESHOLD})

\* df["slope"] = df["Values"].diff(), at code index k >= 1
slope(d, k) == At(d, k).Values - At(d, k - 1).Values

\* idxmin returning the last label holding the minimum
idxmin_last(d, cycle) ==
    LET least == {k \in 1..Len(cycle) :
                     \A j \in 1..Len(cycle) : slope(d, cycle[k]) <= slope(d, cycle[j])}
    IN cycle[CHOOSE k \in least : \A j \in least : k >= j]

\* df["slope"].iloc[cycle].idxmin(): the first label holding the minimum
idxmin(d, cycle) ==
    LET least == {k \in 1..Len(cycle) :
                     \A j \in 1..Len(cycle) : slope(d, cycle[k]) <= slope(d, cycle[j])}
    IN cycle[CHOOSE k \in least : \A j \in least : k <= j]

\* (int(min_slope_idx), df["Timestamp"].iloc[...], float(df["Values"].iloc[...]))
AccelRecord(d, idx) ==
    [Index |-> idx, Timestamp |-> At(d, idx).Timestamp, Value |-> At(d, idx).Values]

find_extrema ==
    /\ pcA = "find_extrema"
    /\ peaks' = find_peaks(ValuesOf(df))
    /\ troughs' = find_peaks(Negated(ValuesOf(df)))
    /\ peaks_df' = ExtremaTable(df, peaks')
    /\ troughs_df' = ExtremaTable(df, troughs')
    /\ pcA' = "below_20"
    /\ UNCHANGED <<df, below_df, i, current_cycle, downward_cycles,
                   acceleration_points, below>>

below_20 ==
    /\ pcA = "below_20"
    /\ below_df' = Below20Table(df)
    /\ pcA' = "scan"
    /\ i' = 1
    /\ UNCHANGED <<df, peaks, troughs, peaks_df, troughs_df, current_cycle,
                   downward_cycles, acceleration_points, below>>

\* one pass of: for i in range(1, len(df))
ScanStep ==
    /\ pcA = "scan"
    /\ i < Len(df)
    /\ IF slope(df, i) < 0
       THEN /\ current_cycle' = Append(current_cycle, i)
            /\ UNCHANGED downward_cycles
       ELSE IF current_cycle # <<>>
            THEN /\ downward_cycles' = Append(downward_cycles, current_cycle)
                 /\ current_cycle' = <<>>
            ELSE UNCHANGED <<current_cycle, downward_cycles>>
    /\ i' = i + 1
    /\ UNCHANGED <<df, pcA, peaks, troughs, peaks_df, troughs_df, below_df,
                   acceleration_points, below>>

\* the end of the scan without the final append: the open run is dropped
ScanEndDiscard ==
    /\ pcA = "scan"
    /\ ~(i < Len(df))
    /\ pcA' = "accel"
    /\ UNCHANGED <<df, peaks, troughs, peaks_df, troughs_df, below_df, i,
                   current_cycle, downward_cycles, acceleration_points, below>>

\* the loop is over: if current_cycle: downward_cycles.append(current_cycle)
ScanEnd ==
    /\ pcA = "scan"
    /\ ~(i < Len(df))
    /\ downward_cycles' = IF current_cycle # <<>>
                          THEN Append(downward_cycles, current_cycle)
                          ELSE downward_cycles
    /\ pcA' = "accel"
    /\ UNCHANGED <<df, peaks, troughs, peaks_df, troughs_df, below_df, i,
                   current_cycle, acceleration_points, below>>

\* one pass of: for cycle in downward_cycles
AccelStep ==
    /\ pcA = "accel"
    /\ Len(acceleration_points) < Len(downward_cycles)
    /\ LET cycle == downward_cycles[Len(acceleration_points) + 1] IN
       acceleration_points' =
           Append(acceleration_points, AccelRecord(df, idxmin(df, cycle)))
    /\ UNCHANGED <<df, pcA, peaks, troughs, peaks_df, troughs_df, below_df, i,
                   current_cycle, downward_cycles, below>>

\* accel_df is returned
AccelEnd ==
    /\ pcA = "accel"
    /\ Len(acceleration_points) = Len(downward_cycles)
    /\ pcA' = "plot_4"
    /\ UNCHANGED <<df, peaks, troughs, peaks_df, troughs_df, below_df, i,
                   current_cycle, downward_cycles, acceleration_points, below>>

\* plot 4 derives its own subset of df
Plot4Subset ==
    /\ pcA = "plot_4"
    /\ below' = PlotBelow(df)
    /\ pcA' = "done"
    /\ UNCHANGED <<df, peaks, troughs, peaks_df, troughs_df, below_df, i,
                   current_cycle, downward_cycles, acceleration_points>>

\* the values of the analysed Series: every sequence over Vals up to MaxLen,
\* and the two scenario inputs
Vals == {18, 19, 20, 21}

ScenarioValues == { <<10, 30, 5, 5, 50>>, <<50, 40, 25, 24, 0>> }

ValueSeqs == UNION { [1..n -> Vals] : n \in 0..MaxLen } \cup ScenarioValues

\* a Series as load_df returns it: Timestamps non-decreasing (here two
\* samples per instant), the moving average attached
SeriesOf(v) ==
    WithMA([k \in 1..Len(v) |-> [Timestamp |-> (k - 1) \div 2, Values |-> v[k]]])

AnalysisIdle ==
    /\ pcA = "find_extrema"
    /\ peaks = <<>> /\ troughs = <<>> /\ peaks_df = <<>> /\ troughs_df = <<>>
    /\ below_df = <<>> /\ i = 0 /\ current_cycle = <<>> /\ downward_cycles = <<>>
    /\ acceleration_points = <<>> /\ below = <<>>

\* ---------------------------------------------------------- run_analysis
Workers == {"w1", "w2"}

DEFAULT_CSV == "data/Sample_Data.csv"

\* uploaded_bytes: None, a CSV with both columns, a CSV without the Values
\* column, and the empty upload b""
Uploads == {"None", "valid", "no_values_column", "empty"}

\* csv_path: None, the default file, a path that does not exist and a file
\* without the Timestamp column
Paths == {"None", DEFAULT_CSV, "data/absent.csv", "data/no_timestamp.csv"}

\* os.path.exists(csv_path)
Exists(path) == path \in {DEFAULT_CSV, "data/no_timestamp.csv"}

\* df.columns of what read_csv returns
Columns(source) ==
    IF source \in {"valid", DEFAULT_CSV} THEN {"Timestamp", "Values"}
    ELSE IF source = "no_values_column" THEN {"Timestamp"}
    ELSE IF source = "data/no_timestamp.csv" THEN {"Values"}
    ELSE {}

\* pd.read_csv(source), which raises on input without a header line, then
\* assert "Timestamp" in df.columns and "Values" in df.columns
SchemaCheck(source) ==
    IF source = "empty" THEN "EmptyDataError"
    ELSE IF "Timestamp" \in Columns(source) /\ "Values" \in Columns(source) THEN "ok"
    ELSE "AssertionError"

\* load_df up to its assert: "ok" or the exception raised
LoadOutcome(csv_path, uploaded_bytes) ==
    IF uploaded_bytes # "None" THEN SchemaCheck(uploaded_bytes)
    ELSE IF csv_path # "None" /\ Exists(csv_path) THEN SchemaCheck(csv_path)
    ELSE "FileNotFoundError"

\* run_analysis with ensure_dir(out_dir) ahead of load_df
StageOrderDirFirst ==
    << "ensure_dir", "load_df", "analyse", "to_csv", "plot_ensure_dir",
       "plot_1", "plot_2", "plot_3", "plot_4", "plot_5", "return" >>

\* run_analysis exporting the CSV after the plots
StageOrderCsvLast ==
    << "load_df", "analyse", "ensure_dir", "plot_ensure_dir",
       "plot_1", "plot_2", "plot_3", "plot_4", "plot_5", "to_csv", "return" >>

\* the statements of run_analysis, plot_and_save_all inlined, in order
StageOrder ==
    << "load_df", "analyse", "ensure_dir", "to_csv", "plot_ensure_dir",
       "plot_1", "plot_2", "plot_3", "plot_4", "plot_5", "return" >>

StageAfter(stage) ==
    StageOrder[(CHOOSE k \in 1..Len(StageOrder) : StageOrder[k] = stage) + 1]

PlotStages == {"plot_1", "plot_2", "plot_3", "plot_4", "plot_5"}

\* os.path.join(out_dir, <name>) of the statement
ArtifactOf(stage) ==
    CASE stage = "to_csv" -> "downward_acceleration_points.csv"
      [] stage = "plot_1" -> "plot_1_original.png"
      [] stage = "plot_2" -> "plot_2_ma.png"
      [] stage = "plot_3" -> "plot_3_peaks_troughs.png"
      [] stage = "plot_4" -> "plot_4_below20.png"
      [] stage = "plot_5" -> "plot_5_acceleration.png"

ArtifactNames == {ArtifactOf(stage) : stage \in PlotStages \cup {"to_csv"}}

\* a write that leaves an artifact that is already there as it is
WriteFileCreateOnly(fs, name, content) ==
    IF fs[name] # 0 THEN fs ELSE [fs EXCEPT ![name] = content]

\* to_csv(path) and savefig(path) open the path for writing: what was there
\* is replaced
WriteFile(fs, name, content) == [fs EXCEPT ![name] = content]

\* run_analysis(csv_path, uploaded_bytes) is called
Enter(w, csv_path, uploaded_bytes) ==
    /\ pc[w] = "idle"
    /\ nextReq <= MaxRequests
    /\ req' = [req EXCEPT ![w] = nextReq]
    /\ nextReq' = nextReq + 1
    /\ args' = [args EXCEPT ![w] = [csv_path |-> csv_path, uploaded_bytes |-> uploaded_bytes]]
    /\ err' = [err EXCEPT ![w] = ""]
    /\ ret' = [ret EXCEPT ![w] = 0]
    /\ effects' = [effects EXCEPT ![w] = <<>>]
    /\ pc' = [pc EXCEPT ![w] = StageOrder[1]]
    /\ UNCHANGED <<files, dirExists>>

\* any caller of run_analysis
Call(w) == \E csv_path \in Paths, uploaded_bytes \in Uploads : Enter(w, csv_path, uploaded_bytes)

\* app.index: uploaded is the posted file's bytes or None (a GET, a POST
\* without a file); csv_path = None if uploaded else DEFAULT_CSV, and the
\* empty upload b"" is falsy
index(w) ==
    \E uploaded \in Uploads :
        Enter(w, IF uploaded \in {"None", "empty"} THEN DEFAULT_CSV ELSE "None", uploaded)

\* df = load_df(csv_path=csv_path, uploaded_bytes=uploaded_bytes)
load_df(w) ==
    /\ pc[w] = "load_df"
    /\ LET outcome == LoadOutcome(args[w].csv_path, args[w].uploaded_bytes) IN
       IF outcome = "ok"
       THEN /\ pc' = [pc EXCEPT ![w] = StageAfter("load_df")]
            /\ UNCHANGED err
       ELSE /\ pc' = [pc EXCEPT ![w] = "failed"]
            /\ err' = [err EXCEPT ![w] = outcome]
    /\ UNCHANGED <<req, args, ret, effects, files, dirExists, nextReq>>

\* find_extrema(df), below_20(df), find_downward_acceleration(df)
analyse(w) ==
    /\ pc[w] = "analyse"
    /\ pc' = [pc EXCEPT ![w] = StageAfter("analyse")]
    /\ UNCHANGED <<req, args, err, ret, effects, files, dirExists, nextReq>>

\* os.makedirs(path, exist_ok=True), in run_analysis and in plot_and_save_all
ensure_dir(w) ==
    /\ pc[w] \in {"ensure_dir", "plot_ensure_dir"}
    /\ dirExists' = TRUE
    /\ effects' = [effects EXCEPT ![w] = Append(@, "makedirs")]
    /\ pc' = [pc EXCEPT ![w] = StageAfter(pc[w])]
    /\ UNCHANGED <<req, args, err, ret, files, nextReq>>

\* accel_df.to_csv(accel_csv_path, index=False)
to_csv(w) ==
    /\ pc[w] = "to_csv"
    /\ dirExists
    /\ files' = WriteFile(files, ArtifactOf("to_csv"), req[w])
    /\ effects' = [effects EXCEPT ![w] = Append(@, ArtifactOf("to_csv"))]
    /\ pc' = [pc EXCEPT ![w] = StageAfter("to_csv")]
    /\ UNCHANGED <<req, args, err, ret, dirExists, nextReq>>

\* plot k: the figure is drawn and fig.savefig(...) writes it
savefig(w) ==
    /\ pc[w] \in PlotStages
    /\ dirExists
    /\ files' = WriteFile(files, ArtifactOf(pc[w]), req[w])
    /\ effects' = [effects EXCEPT ![w] = Append(@, ArtifactOf(pc[w]))]
    /\ pc' = [pc EXCEPT ![w] = StageAfter(pc[w])]
    /\ UNCHANGED <<req, args, err, ret, dirExists, nextReq>>

\* drawing or saving plot k raises: nothing in plot_and_save_all or
\* run_analysis catches it or removes what was written
RenderFails(w) ==
    /\ pc[w] \in PlotStages
    /\ pc' = [pc EXCEPT ![w] = "failed"]
    /\ err' = [err EXCEPT ![w] = "RenderError"]
    /\ UNCHANGED <<req, args, ret, effects, files, dirExists, nextReq>>

\* return {"df": df, "peaks_df": ..., "accel_csv_path": ...}
Return(w) ==
    /\ pc[w] = "return"
    /\ ret' = [ret EXCEPT ![w] = req[w]]
    /\ pc' = [pc EXCEPT ![w] = "done"]
    /\ UNCHANGED <<req, args, err, effects, files, dirExists, nextReq>>

\* the caller has the tables or the exception: the worker is free again
NoArgs == [csv_path |-> "None", uploaded_bytes |-> "None"]

\* the caller has the tables or the exception: the call is over and the
\* worker is free again
Finish(w) ==
    /\ pc[w] \in {"done", "failed"}
    /\ pc' = [pc EXCEPT ![w] = "idle"]
    /\ req' = [req EXCEPT ![w] = 0]
    /\ args' = [args EXCEPT ![w] = NoArgs]
    /\ err' = [err EXCEPT ![w] = ""]
    /\ ret' = [ret EXCEPT ![w] = 0]
    /\ effects' = [effects EXCEPT ![w] = <<>>]
    /\ UNCHANGED <<files, dirExists, nextReq>>

\* no call of run_analysis yet, no output directory
RunIdle ==
    /\ pc = [w \in Workers |-> "idle"]
    /\ req = [w \in Workers |-> 0]
    /\ args = [w \in Workers |-> NoArgs]
    /\ err = [w \in Workers |-> ""]
    /\ ret = [w \in Workers |-> 0]
    /\ effects = [w \in Workers |-> <<>>]
    /\ files = [name \in ArtifactNames |-> 0]
    /\ dirExists = FALSE
    /\ nextReq = 1

\* load_df is not running
LoadIdle == raw = <<>> /\ table = <<>> /\ pcL = "returned"

InitAnalysis ==
    /\ df \in { SeriesOf(v) : v \in ValueSeqs }
    /\ AnalysisIdle
    /\ LoadIdle
    /\ RunIdle

vars == <<loadVars, anaVars, runVars>>

NextAnalysis ==
    \/ find_extrema /\ UNCHANGED <<loadVars, runVars>>
    \/ below_20 /\ UNCHANGED <<loadVars, runVars>>
    \/ ScanStep /\ UNCHANGED <<loadVars, runVars>>
    \/ ScanEnd /\ UNCHANGED <<loadVars, runVars>>
    \/ AccelStep /\ UNCHANGED <<loadVars, runVars>>
    \/ AccelEnd /\ UNCHANGED <<loadVars, runVars>>
    \/ Plot4Subset /\ UNCHANGED <<loadVars, runVars>>

SpecAnalysis == InitAnalysis /\ [][NextAnalysis]_vars

\* --------------------------------------------------------------- load_df
\* df["Timestamp"] = pd.to_datetime(...)
ParseTimestamps ==
    /\ pcL = "to_datetime"
    /\ table' = ParseColumn(table)
    /\ pcL' = "sort_values"
    /\ UNCHANGED <<raw, anaVars>>

\* df = df.dropna(subset=["Timestamp"]).sort_values("Timestamp").reset_index(drop=True)
DropSortReset ==
    /\ pcL = "sort_values"
    /\ table' \in sort_values(dropna(table))
    /\ pcL' = "rolling"
    /\ UNCHANGED <<raw, anaVars>>

\* df["5_day_MA"] = ...; return df
AttachMA ==
    /\ pcL = "rolling"
    /\ df' = WithMA(table)
    /\ pcL' = "returned"
    /\ UNCHANGED <<raw, table, pcA, peaks, troughs, peaks_df, troughs_df, below_df,
                   i, current_cycle, downward_cycles, acceleration_points, below>>

\* Timestamp cells: 1 Feb 2024, 2 Jan 2024 (earlier, though its text sorts
\* later), 1 Jan 1999 (earlier still: %y), 31 Feb 2024 (no such day) and
\* "2024-01-02" (another shape)
TimestampCells ==
    { <<1, 2, 24, 0, 0>>, <<2, 1, 24, 0, 0>>, <<1, 1, 99, 0, 0>>,
      <<31, 2, 24, 0, 0>>, <<2024, 1, 2>> }

RawRows == [Timestamp : TimestampCells, Values : {18, 21}]

\* the rows of the long tables
LongRows ==
    { [Timestamp |-> <<1, 2, 24, 0, 0>>, Values |-> 18],
      [Timestamp |-> <<2, 1, 24, 0, 0>>, Values |-> 21],
      [Timestamp |-> <<31, 2, 24, 0, 0>>, Values |-> 20] }

\* tables with both columns: short ones over RawRows, long ones over LongRows
RawTables ==
    UNION { [1..len -> RawRows] : len \in 0..MaxRows }
    \cup UNION { [1..len -> LongRows] : len \in 0..MaxLongRows }

InitLoad ==
    /\ raw \in RawTables
    /\ table = raw
    /\ pcL = "to_datetime"
    /\ df = <<>>
    /\ AnalysisIdle
    /\ RunIdle

NextLoad ==
    \/ ParseTimestamps /\ UNCHANGED runVars
    \/ DropSortReset /\ UNCHANGED runVars
    \/ AttachMA /\ UNCHANGED runVars

SpecLoad == InitLoad /\ [][NextLoad]_vars

\* ------------------------------------------------------ claims on load_df
Returned == pcL = "returned"

\* the rows of raw whose Timestamp parses, parsed, in raw order
Parsable == dropna(ParseColumn(raw))

Sample(row) == [Timestamp |-> row.Timestamp, Values |-> row.Values]

Samples(d) == [k \in 1..Len(d) |-> Sample(d[k])]

\* d holds exactly the rows of src, taken in the order perm
ArrangedBy(d, src, perm) ==
    /\ Len(d) = Len(src)
    /\ \A k \in 1..Len(d) : Sample(d[k]) = src[perm[k]]

NonDecreasing(d) == \A k \in 1..Len(d) - 1 : d[k].Timestamp <= d[k + 1].Timestamp

\* C7: the Series load_df returns holds exactly the rows whose Timestamp
\* parses (none added, duplicated or removed), is non-decreasing by
\* timestamp, keeps rows with equal timestamps in their input order, and the
\* clean-and-sort step applied to it returns it unchanged.
C7_StableSortedLoad ==
    Returned =>
        /\ \E perm \in Permutations(1..Len(Parsable)) :
              /\ ArrangedBy(df, Parsable, perm)
              /\ \A j, k \in 1..Len(df) :
                    (j < k /\ df[j].Timestamp = df[k].Timestamp) => perm[j] < perm[k]
        /\ NonDecreasing(df)
        /\ \A again \in sort_values(dropna(Samples(df))) : again = Samples(df)

\* what does hold of the returned Series: the parsable rows in some order,
\* non-decreasing by timestamp
C7_SortedLoad ==
    Returned =>
        /\ \E perm \in Permutations(1..Len(Parsable)) : ArrangedBy(df, Parsable, perm)
        /\ NonDecreasing(df)

\* two rows of one instant came out in the reverse of their input order
C7_Witness ==
    /\ Returned
    /\ Len(raw) = 2 /\ Len(df) = 2
    /\ df[1].Timestamp = df[2].Timestamp
    /\ df[1].Values = raw[2].Values /\ df[2].Values = raw[1].Values
    /\ raw[1].Values # raw[2].Values

RECURSIVE SumRange(_, _, _)
SumRange(d, from, to) ==
    IF from > to THEN 0 ELSE At(d, to).Values + SumRange(d, from, to - 1)

\* C8: at every index i of the returned Series the moving average is the
\* mean of the values at positions max(0, i-4)..i of that Series (i+1
\* samples when i < 4, 5 samples when i >= 4), the Series being the parsable
\* rows sorted, and at index 0 it is value[0].
C8_TrailingMean ==
    Returned =>
        /\ Samples(df) \in sort_values(Parsable)
        /\ \A idx \in 0..Len(df) - 1 :
              LET from == Max(0, idx - 4) IN
              /\ At(df, idx).MA[1] = SumRange(df, from, idx)
              /\ At(df, idx).MA[2] = idx - from + 1
              /\ At(df, idx).MA[2] = IF idx < 4 THEN idx + 1 ELSE 5
        /\ Len(df) >= 1 => At(df, 0).MA = <<At(df, 0).Values, 1>>

\* a table with an unparsable row and rows out of order, six rows kept, so
\* that the first sample has left the window of the last
C8_Witness ==
    /\ Returned
    /\ Len(df) >= 6 /\ Len(raw) > Len(df)
    /\ Samples(df) # Parsable
    /\ At(df, 5).MA[1] # SumRange(df, 0, 5)
    /\ At(df, 5).MA[2] = 5

\* ------------------------------------------------------------ the server
InitRun ==
    /\ RunIdle
    /\ LoadIdle
    /\ df = <<>>
    /\ AnalysisIdle

NextRun ==
    \/ (\E w \in Workers : Call(w)) /\ UNCHANGED <<loadVars, anaVars>>
    \/ (\E w \in Workers : index(w)) /\ UNCHANGED <<loadVars, anaVars>>
    \/ (\E w \in Workers : load_df(w)) /\ UNCHANGED <<loadVars, anaVars>>
    \/ (\E w \in Workers : analyse(w)) /\ UNCHANGED <<loadVars, anaVars>>
    \/ (\E w \in Workers : ensure_dir(w)) /\ UNCHANGED <<loadVars, anaVars>>
    \/ (\E w \in Workers : to_csv(w)) /\ UNCHANGED <<loadVars, anaVars>>
    \/ (\E w \in Workers : savefig(w)) /\ UNCHANGED <<loadVars, anaVars>>
    \/ (\E w \in Workers : RenderFails(w)) /\ UNCHANGED <<loadVars, anaVars>>
    \/ (\E w \in Workers : Return(w)) /\ UNCHANGED <<loadVars, anaVars>>
    \/ (\E w \in Workers : Finish(w)) /\ UNCHANGED <<loadVars, anaVars>>

SpecRun == InitRun /\ [][NextRun]_vars

\* ------------------------------------------------ claims on run_analysis
\* the artifacts the call of w has written, in the order it wrote them
Written(w) ==
    FilterSeq(effects[w], {k \in 1..Len(effects[w]) : effects[w][k] \in ArtifactNames})

\* the order C10 names
ArtifactOrder ==
    << "downward_acceleration_points.csv", "plot_1_original.png", "plot_2_ma.png",
       "plot_3_peaks_troughs.png", "plot_4_below20.png", "plot_5_acceleration.png" >>

Loaded(w) == pc[w] \notin {"idle", "load_df"}

NoInput(w) ==
    /\ args[w].uploaded_bytes = "None"
    /\ (args[w].csv_path = "None" \/ ~Exists(args[w].csv_path))

LacksColumn(w) ==
    LET source == IF args[w].uploaded_bytes # "None"
                  THEN args[w].uploaded_bytes ELSE args[w].csv_path
    IN /\ ~NoInput(w)
       /\ source # "empty"
       /\ ~({"Timestamp", "Values"} \subseteq Columns(source))

\* C4: a call with no byte buffer and an absent or non-existent path raises
\* the missing-input error (FileNotFoundError), a call whose input lacks
\* Timestamp or Values raises the schema error (AssertionError); the call
\* that raised either has not created the output directory, has written no
\* artifact and returns no tables.
C4_FatalBeforeEffects ==
    \A w \in Workers :
        /\ (Loaded(w) /\ NoInput(w)) => (pc[w] = "failed" /\ err[w] = "FileNotFoundError")
        /\ (Loaded(w) /\ LacksColumn(w)) => (pc[w] = "failed" /\ err[w] = "AssertionError")
        /\ err[w] \in {"FileNotFoundError", "AssertionError"} =>
              /\ pc[w] = "failed"
              /\ effects[w] = <<>>
              /\ ret[w] = 0

\* a call failed on its input while the directory holds an earlier call's
\* artifacts
C4_Witness ==
    \E w \in Workers :
        /\ pc[w] = "failed" /\ err[w] = "AssertionError"
        /\ effects[w] = <<>>
        /\ dirExists
        /\ \A name \in ArtifactNames : files[name] \notin {0, req[w]}

\* the step is a write of an artifact by w
WritesArtifact(w) ==
    /\ Len(effects'[w]) = Len(effects[w]) + 1
    /\ effects'[w][Len(effects'[w])] \in ArtifactNames

\* a call that is at a write is never held back by the other call
NeverHeldBack ==
    \A w \in Workers :
        (pc[w] \in PlotStages \cup {"to_csv"}) => ENABLED (to_csv(w) \/ savefig(w))

C10_ArtifactPrefix ==
    \A w \in Workers :
        /\ Written(w) = SubSeq(ArtifactOrder, 1, Len(Written(w)))
        /\ err[w] = "RenderError" =>
              /\ pc[w] = "failed" /\ ret[w] = 0
              /\ Len(Written(w)) \in 1..5
        /\ ret[w] # 0 => (pc[w] = "done" /\ Written(w) = ArtifactOrder)
        /\ pc[w] = "done" => ret[w] = req[w]

\* a call failed at plot 3: its CSV and first two charts lie next to the
\* later charts of the call before it
C10_Witness ==
    \E w \in Workers :
        /\ pc[w] = "failed" /\ err[w] = "RenderError"
        /\ Len(Written(w)) = 3
        /\ \A k \in 1..3 : files[ArtifactOrder[k]] = req[w]
        /\ \A k \in 4..6 : files[ArtifactOrder[k]] \notin {0, req[w]}

\* ------------------------------------------------- claims on the analysers
n == Len(df)
value(idx) == At(df, idx).Values
Extrema == pcA # "find_extrema"
Scanned == pcA \in {"accel", "plot_4", "done"}
Emitted == pcA \in {"plot_4", "done"}

StrictPeak(idx) ==
    idx >= 1 /\ idx <= n - 2 /\ value(idx - 1) < value(idx) /\ value(idx) > value(idx + 1)
StrictTrough(idx) ==
    idx >= 1 /\ idx <= n - 2 /\ value(idx - 1) > value(idx) /\ value(idx) < value(idx + 1)

\* l..r is a maximal block of equal values that has a sample on each side
Plateau(l, r) ==
    /\ 1 <= l /\ l <= r /\ r <= n - 2
    /\ \A k \in l..r : value(k) = value(l)
    /\ value(l - 1) # value(l) /\ value(r + 1) # value(r)
PeakMidpoint(idx) ==
    \E l \in 1..n - 2, r \in 1..n - 2 :
        /\ Plateau(l, r) /\ value(l - 1) < value(l) /\ value(r + 1) < value(r)
        /\ idx = (l + r) \div 2
TroughMidpoint(idx) ==
    \E l \in 1..n - 2, r \in 1..n - 2 :
        /\ Plateau(l, r) /\ value(l - 1) > value(l) /\ value(r + 1) > value(r)
        /\ idx = (l + r) \div 2

\* C1 as stated: index i is a Peak iff 1 <= i <= n-2 and
\* value[i-1] < value[i] > value[i+1], a Trough iff the mirrored condition
\* holds; a sample with an equal neighbour is never reported; for
\* [10,30,5,5,50] Peaks = {1} and Troughs is empty.
C1_StrictNeighbourRule ==
    Extrema =>
        /\ \A idx \in 0..n - 1 :
              /\ idx \in SetOf(peaks) <=> StrictPeak(idx)
              /\ idx \in SetOf(troughs) <=> StrictTrough(idx)
        /\ SetOf(peaks) \cup SetOf(troughs) \subseteq 0..n - 1
        /\ ValuesOf(df) = <<10, 30, 5, 5, 50>> => peaks = <<1>> /\ troughs = <<>>

\* C1 amended: index i is a Peak iff it is the middle (rounded down) of a
\* maximal block of equal values lying within 1..n-2 whose neighbours on
\* both sides are strictly lower, a Trough iff both are strictly higher;
\* so every sample that satisfies the strict three-point rule is reported,
\* and a flat top or bottom is reported once; each list is ascending; for
\* [10,30,5,5,50] Peaks = {1} and Troughs = {2}.
C1_PlateauMidpointRule ==
    Extrema =>
        /\ peaks = Ascending({idx \in 0..n - 1 : PeakMidpoint(idx)})
        /\ troughs = Ascending({idx \in 0..n - 1 : TroughMidpoint(idx)})
        /\ \A idx \in 0..n - 1 :
              /\ StrictPeak(idx) => idx \in SetOf(peaks)
              /\ StrictTrough(idx) => idx \in SetOf(troughs)
        /\ ValuesOf(df) = <<10, 30, 5, 5, 50>> => peaks = <<1>> /\ troughs = <<2>>

C1_Witness ==
    /\ Extrema
    /\ ValuesOf(df) = <<10, 30, 5, 5, 50>>
    /\ peaks = <<1>> /\ troughs = <<2>>
    /\ ~StrictTrough(2)

\* C6: the Peak and Trough index lists are disjoint, neither holds index 0
\* or index n-1, and for a Series of length 0, 1 or 2 both are empty.
C6_ExtremaExclusive ==
    Extrema =>
        /\ SetOf(peaks) \cap SetOf(troughs) = {}
        /\ 0 \notin SetOf(peaks) \cup SetOf(troughs)
        /\ (n - 1) \notin SetOf(peaks) \cup SetOf(troughs)
        /\ n <= 2 => peaks = <<>> /\ troughs = <<>>

C6_Witness ==
    /\ Extrema
    /\ peaks # <<>> /\ troughs # <<>>
    /\ value(0) < value(1) /\ value(n - 2) > value(n - 1)

RunsHolding(idx) == {c \in 1..Len(downward_cycles) : idx \in SetOf(downward_cycles[c])}

\* C2: after the scan every index with slope < 0 is in exactly one recorded
\* run, no index with slope >= 0 is in a run, each run is a block of
\* consecutive indices that cannot be extended at either end, runs do not
\* overlap, and a run open at the end of the sequence is recorded.
C2_RunCoverage ==
    Scanned =>
        /\ \A idx \in 1..n - 1 :
              IF slope(df, idx) < 0
              THEN Cardinality(RunsHolding(idx)) = 1
              ELSE RunsHolding(idx) = {}
        /\ \A c \in 1..Len(downward_cycles) :
              LET run == downward_cycles[c] IN
              /\ run # <<>>
              /\ SetOf(run) \subseteq 1..n - 1
              /\ \A k \in 1..Len(run) - 1 : run[k + 1] = run[k] + 1
              /\ run[1] - 1 >= 1 => slope(df, run[1] - 1) >= 0
              /\ run[Len(run)] + 1 <= n - 1 => slope(df, run[Len(run)] + 1) >= 0
        /\ \A c, e \in 1..Len(downward_cycles) :
              c # e => SetOf(downward_cycles[c]) \cap SetOf(downward_cycles[e]) = {}
        /\ (n >= 2 /\ slope(df, n - 1) < 0) =>
              /\ downward_cycles # <<>>
              /\ (n - 1) \in SetOf(downward_cycles[Len(downward_cycles)])

C2_Witness ==
    /\ pcA = "done"
    /\ Len(downward_cycles) >= 2
    /\ slope(df, n - 1) < 0
    /\ Len(downward_cycles[Len(downward_cycles)]) >= 2

\* C3: one Acceleration record per recorded run, in run order; its index is
\* the first index of the run holding the run's smallest slope; it carries
\* the timestamp and the value of that index; for [50,40,25,24,0] the output
\* is the single record with index 4 and value 0.
C3_SteepestStep ==
    /\ pcA \in {"accel", "plot_4", "done"} =>
          \A c \in 1..Len(acceleration_points) :
              LET rec == acceleration_points[c]
                  run == downward_cycles[c]
              IN /\ rec.Index \in SetOf(run)
                 /\ \A j \in SetOf(run) : slope(df, rec.Index) <= slope(df, j)
                 /\ \A j \in SetOf(run) : j < rec.Index => slope(df, j) > slope(df, rec.Index)
                 /\ rec.Timestamp = At(df, rec.Index).Timestamp
                 /\ rec.Value = value(rec.Index)
    /\ Emitted =>
          /\ Len(acceleration_points) = Len(downward_cycles)
          /\ ValuesOf(df) = <<50, 40, 25, 24, 0>> =>
                /\ Len(acceleration_points) = 1
                /\ acceleration_points[1].Index = 4
                /\ acceleration_points[1].Value = 0

C3_Witness ==
    /\ pcA = "done"
    /\ ValuesOf(df) = <<50, 40, 25, 24, 0>>
    /\ downward_cycles = << <<1, 2, 3, 4>> >>
    /\ Len(acceleration_points) = 1
    /\ acceleration_points[1].Index = 4

BelowPositions == Ascending({k \in 1..n : df[k].Values < 20})

C9_BelowIsExact ==
    /\ pcA \notin {"find_extrema", "below_20"} =>
          /\ Len(below_df) = Len(BelowPositions)
          /\ \A k \in 1..Len(below_df) :
                /\ below_df[k].Timestamp = df[BelowPositions[k]].Timestamp
                /\ below_df[k].Value = df[BelowPositions[k]].Values
          /\ n = 0 => below_df = <<>>
    /\ pcA = "done" =>
          /\ Len(below) = Len(below_df)
          /\ \A k \in 1..Len(below) :
                /\ below[k] = df[BelowPositions[k]]
                /\ below[k].Timestamp = below_df[k].Timestamp
                /\ below[k].Values = below_df[k].Value

\* C9: below_20 returns exactly the samples with value < 20 (a value of 20
\* is left out), in Series order, and no step changes the Series; an empty
\* Series gives an empty result; the subset plot 4 derives is the same
\* samples.
C9_ThresholdExact == []C9_BelowIsExact /\ [][df' = df]_vars

C9_Witness ==
    /\ pcA = "done"
    /\ \E k \in 1..n : df[k].Values = 20
    /\ \E k \in 1..n : df[k].Values = 19
    /\ \E k \in 1..n : df[k].Values = 21
    /\ below_df # <<>> /\ Len(below_df) < n
    /\ Len(below) = Len(below_df)

====
